---- MODULE Spec2Model ----
(***************************************************************************)
(* Tenant-isolated event distribution engine: TenantService (bounded       *)
(* per-tenant event log), EventService (validation / creation / emission)  *)
(* and SocketService (connection registry and room broadcast).             *)
(*                                                                         *)
(* JavaScript runs every handler to completion on one thread, so each      *)
(* handler is one action.  Text is a sequence of one-character strings.    *)
(* A value whose JavaScript type matters is a record [kind, val].          *)
(***************************************************************************)
EXTENDS Integers, Sequences, FiniteSets, TLC

VARIABLES
    tenantEvents,      \* TenantService.tenantEvents : tenant -> events, newest first
    connectedClients,  \* SocketService.connectedClients : Map tenant -> Set of socket ids
    rooms,             \* socket.io room membership : room -> set of sockets
    sockets,           \* per socket: connection status and socket.tenantId
    received,          \* per socket: packets emitted to it, in emission order
    listeners,         \* EventEmitter listeners of 'eventCreated', in registration order
    nextId,            \* number of ids uuidv4() has handed out, plus one
    clock,             \* the wall clock read by new Date()
    stored,            \* history: per tenant, what was stored since the last clear, oldest first
    lastOp,            \* history: the last call, its arguments and its outcome
    config             \* the exported configuration object: its supportedTenants array

vars == <<tenantEvents, connectedClients, rooms, sockets, received, listeners,
          nextId, clock, stored, lastOp, config>>

-----------------------------------------------------------------------------
(* Bounds of the model *)

MaxCreates == 2
MaxSockets == 2
MaxClock == 1
MaxAppends == 1
NearCap == 999
MaxChain == 1001
MaxContextCreates == 1
MaxTextLen == 3
MaxPad == 1
MaxListCreates == 3
MaxLimit == 4
MaxReplayCreates == 11
MaxInbox == 2
MaxLogCreates == 2
MaxLogAppends == 1
MaxLogLimit == 1
MaxHeldTenants == 3
MaxCatalogCreates == 2
MaxReserved == 1
MaxLimitLen == 3
MaxGetCreates == 2
MaxListeners == 3

(* Program constants *)

maxEventMessageLength == 500
MAX_EVENTS_PER_TENANT == 1000
RecentEventsLimit == 10

\* the controller getEvents: the limit when none is given, and the range it accepts
DefaultLimit == 50
LowestLimit == 1
HighestLimit == 100

supportedTenants == <<"tenant_a", "tenant_b">>

-----------------------------------------------------------------------------
(* Generic helpers *)

Range(s) == {s[i] : i \in DOMAIN s}

Max(a, b) == IF a > b THEN a ELSE b

Min(a, b) == IF a < b THEN a ELSE b

Rep(c, n) == [i \in 1..n |-> c]

Reverse(s) == [i \in 1..Len(s) |-> s[Len(s) + 1 - i]]

(* JavaScript values *)

Str(v) == [kind |-> "string", val |-> v]

NonText(k) == [kind |-> k, val |-> <<>>]

NonStringId(k) == [kind |-> k, val |-> ""]

\* !id for a tenant identifier: undefined, null and "" are falsy
FalsyId(id) == id.kind \in {"undefined", "null"} \/ (id.kind = "string" /\ id.val = "")

\* !message: undefined, null and "" are falsy; 123, {} and [] are truthy
FalsyText(m) == m.kind \in {"undefined", "null"} \/ (m.kind = "string" /\ Len(m.val) = 0)

WhiteSpace == {" ", "\t", "\n"}

\* String.prototype.trim
Trim(s) ==
    IF \A i \in 1..Len(s) : s[i] \in WhiteSpace
    THEN <<>>
    ELSE LET first == CHOOSE i \in 1..Len(s) :
                          s[i] \notin WhiteSpace /\ \A j \in 1..(i - 1) : s[j] \in WhiteSpace
             last  == CHOOSE i \in 1..Len(s) :
                          s[i] \notin WhiteSpace /\ \A j \in (i + 1)..Len(s) : s[j] \in WhiteSpace
         IN  SubSeq(s, first, last)

-----------------------------------------------------------------------------
(* TenantService *)

TenantIds == Range(supportedTenants)

isValidTenant(tenantId) ==
    IF FalsyId(tenantId) \/ tenantId.kind # "string"
    THEN FALSE
    ELSE tenantId.val \in Range(config.supportedTenants)

InvalidTenantError == "Invalid tenant"

\* Array.prototype.push in place of unshift: the new event goes to the tail
Push(list, e) == Append(list, e)

\* Array.prototype.unshift
Unshift(list, e) == <<e>> \o list

\* a truncation that keeps the last start elements: it drops the head
SpliceHead(list, start) ==
    SubSeq(list, Len(list) - Min(start, Len(list)) + 1, Len(list))

\* Array.prototype.splice(start): drops everything from index start on
SpliceFrom(list, start) == SubSeq(list, 1, Min(start, Len(list)))

\* an append that writes over the newest stored event instead of going before it
addEventOverHead(list, event) ==
    IF list = <<>> THEN <<event>> ELSE <<event>> \o Tail(list)

\* addEvent without the truncation to the cap
addEventUncapped(list, event) == Unshift(list, event)

\* the body of addEvent after the tenant check: unshift, then truncate to the cap
addEvent(list, event) ==
    LET unshifted == Unshift(list, event)
    IN  IF Len(unshifted) > MAX_EVENTS_PER_TENANT
        THEN SpliceFrom(unshifted, MAX_EVENTS_PER_TENANT)
        ELSE unshifted

\* limit ? events.slice(0, limit) : [...events]
\* slice(0, end) counts a negative end back from the length
getEvents(list, limit) ==
    IF limit # 0
    THEN SubSeq(list, 1, IF limit < 0 THEN Max(Len(list) + limit, 0) ELSE Min(limit, Len(list)))
    ELSE list

\* a count that answers with the first tenant's for an unknown tenant
getEventCountOfFirst(tenantId) ==
    IF ~isValidTenant(tenantId)
    THEN Len(tenantEvents[supportedTenants[1]])
    ELSE Len(tenantEvents[tenantId.val])

getEventCount(tenantId) ==
    IF ~isValidTenant(tenantId) THEN 0 ELSE Len(tenantEvents[tenantId.val])

-----------------------------------------------------------------------------
(* SocketService *)

Sockets == 1..MaxSockets

MapHas(m, k) == k \in DOMAIN m

MapSet(m, k, v) == [x \in (DOMAIN m) \cup {k} |-> IF x = k THEN v ELSE m[x]]

MapDelete(m, k) == [x \in (DOMAIN m) \ {k} |-> m[x]]

EmptyMap == [x \in {} |-> {}]

Emit(rcv, s, packet) == [rcv EXCEPT ![s] = Append(@, packet)]

\* an emit to a room that puts the packet ahead of what its sockets were sent before
RoomEmitAhead(rcv, rms, room, packet) ==
    [s \in DOMAIN rcv |->
        IF room \in DOMAIN rms /\ s \in rms[room] THEN <<packet>> \o rcv[s] ELSE rcv[s]]

\* room membership that falls back to every joined socket when the room is empty
RoomMembersOrEveryone(rms, room) ==
    IF room \in DOMAIN rms /\ rms[room] # {}
    THEN rms[room]
    ELSE UNION {rms[r] : r \in DOMAIN rms}

\* an emit to a room that overtakes all but the first packet its sockets were sent
RoomEmitOvertaking(rcv, rms, room, packet) ==
    [s \in DOMAIN rcv |->
        IF room \in DOMAIN rms /\ s \in rms[room]
        THEN IF rcv[s] = <<>>
             THEN <<packet>>
             ELSE <<Head(rcv[s]), packet>> \o Tail(rcv[s])
        ELSE rcv[s]]

\* io.to(room).emit(...): the packet goes to every socket in the room
RoomMembers(rms, room) == IF room \in DOMAIN rms THEN rms[room] ELSE {}

RoomEmit(rcv, rms, room, packet) ==
    [s \in DOMAIN rcv |-> IF s \in RoomMembers(rms, room) THEN Append(rcv[s], packet) ELSE rcv[s]]

EventCreatedPacket(event, now) ==
    [type |-> "event_created", event |-> event, timestamp |-> now]

\* a broadcast with io.emit in place of io.to(tenantId).emit: every room gets it
broadcastToEveryRoom(rcv, rms, tenantId, event, now) ==
    IF ~isValidTenant(tenantId)
    THEN rcv
    ELSE [s \in DOMAIN rcv |->
            IF \E room \in DOMAIN rms : s \in rms[room]
            THEN Append(rcv[s], EventCreatedPacket(event, now))
            ELSE rcv[s]]

broadcastToTenant(rcv, rms, tenantId, event, now) ==
    IF ~isValidTenant(tenantId)
    THEN rcv
    ELSE RoomEmit(rcv, rms, tenantId.val, EventCreatedPacket(event, now))

getConnectedClientCount(tenantId) ==
    IF MapHas(connectedClients, tenantId) THEN Cardinality(connectedClients[tenantId]) ELSE 0

\* a join that enters the socket in no room
JoinNoRoom(rms, room, s) == rms

\* socket.join(room) / the leave of every room socket.io performs when a socket closes
JoinRoom(rms, room, s) ==
    [r \in (DOMAIN rms) \cup {room} |->
        (IF r \in DOMAIN rms THEN rms[r] ELSE {}) \cup (IF r = room THEN {s} ELSE {})]

\* a close that leaves the socket in its rooms
StayInRooms(rms, s) == rms

LeaveAllRooms(rms, s) == [r \in DOMAIN rms |-> rms[r] \ {s}]

\* a tracking that also enters the socket in every set the map already holds
trackInEverySet(cc, tenantId, s) ==
    LET withSet == IF ~MapHas(cc, tenantId) THEN MapSet(cc, tenantId, {}) ELSE cc
    IN  [t \in DOMAIN withSet |-> withSet[t] \cup {s}]

\* handleConnection, "Track connection"
trackConnection(cc, tenantId, s) ==
    LET withSet == IF ~MapHas(cc, tenantId) THEN MapSet(cc, tenantId, {}) ELSE cc
    IN  MapSet(withSet, tenantId, withSet[tenantId] \cup {s})

\* a removal that deletes the tenant's whole set
untrackTenant(cc, tenantId, s) ==
    IF MapHas(cc, tenantId) THEN MapDelete(cc, tenantId) ELSE cc

\* a removal that keeps the tenant's set when its last socket has gone
untrackKeepEmpty(cc, tenantId, s) ==
    IF MapHas(cc, tenantId) THEN MapSet(cc, tenantId, cc[tenantId] \ {s}) ELSE cc

\* handleDisconnection, "Remove from tracking" and "Clean up empty tenant sets"
untrackConnection(cc, tenantId, s) ==
    IF MapHas(cc, tenantId)
    THEN LET removed == MapSet(cc, tenantId, cc[tenantId] \ {s})
         IN  IF Cardinality(removed[tenantId]) = 0 THEN MapDelete(removed, tenantId) ELSE removed
    ELSE cc

\* getConnectionStats: per-tenant sizes and their total
RECURSIVE SumSizes(_, _)
SumSizes(cc, keys) ==
    IF keys = {}
    THEN 0
    ELSE LET k == CHOOSE x \in keys : TRUE
         IN  Cardinality(cc[k]) + SumSizes(cc, keys \ {k})

\* stats whose total counts the tenant sets instead of the sockets in them
getConnectionStatsCountingSets ==
    [totalConnections |-> Cardinality(DOMAIN connectedClients),
     tenantConnections |-> [t \in DOMAIN connectedClients |-> Cardinality(connectedClients[t])]]

getConnectionStats ==
    [totalConnections |-> SumSizes(connectedClients, DOMAIN connectedClients),
     tenantConnections |-> [t \in DOMAIN connectedClients |-> Cardinality(connectedClients[t])]]

ConnectionEstablishedPacket(tenantId, now) ==
    [type |-> "connection_established", tenantId |-> tenantId, timestamp |-> now,
     message |-> "Connected to event stream"]

InitialEventsPacket(events) ==
    [type |-> "initial_events", events |-> events, count |-> Len(events)]

\* handleConnection: tenantService.getEvents(tenantId, 10) inside the try block;
\* the catch leaves nothing to send when getEvents throws
recentEventsFor(tenantId) ==
    IF isValidTenant(tenantId)
    THEN getEvents(tenantEvents[tenantId.val], RecentEventsLimit)
    ELSE <<>>

\* the recent events emitted with io.emit: every socket is sent them
sendInitialEventsToAll(rcv, s, recentEvents) ==
    IF Len(recentEvents) > 0
    THEN [x \in DOMAIN rcv |-> Append(rcv[x], [type |-> "initial_events",
                                               events |-> recentEvents,
                                               count |-> Len(recentEvents)])]
    ELSE rcv

\* a replay that is followed by a live broadcast of its newest event
sendInitialEventsThenNewest(rcv, s, recentEvents) ==
    IF Len(recentEvents) > 0
    THEN Emit(Emit(rcv, s, InitialEventsPacket(recentEvents)),
              s, EventCreatedPacket(recentEvents[1], 0))
    ELSE rcv

\* handleConnection, "Send recent events to newly connected client"
sendInitialEvents(rcv, s, recentEvents) ==
    IF Len(recentEvents) > 0 THEN Emit(rcv, s, InitialEventsPacket(recentEvents)) ELSE rcv

\* a handshake check that only asks for the parameter to be present
validateSocketTenantPresent(tenantId) ==
    IF FalsyId(tenantId) THEN "Missing tenant query parameter" ELSE ""

\* validateSocketTenant: "" when the handshake is accepted
validateSocketTenantError(tenantId) ==
    IF FalsyId(tenantId) THEN "Missing tenant query parameter"
    ELSE IF ~isValidTenant(tenantId) THEN "Invalid tenant ID"
    ELSE ""

-----------------------------------------------------------------------------
(* EventService *)

MessageRequiredError == "Message is required and must be a string"

MessageTooLongError == "Message exceeds maximum length"

\* createEvent with the message checks ahead of the tenant check
createEventErrorMessageFirst(tenantId, message) ==
    IF FalsyText(message) \/ message.kind # "string" THEN MessageRequiredError
    ELSE IF Len(message.val) > maxEventMessageLength THEN MessageTooLongError
    ELSE IF ~isValidTenant(tenantId) THEN InvalidTenantError
    ELSE ""

\* createEvent with the length check applied to the trimmed message
createEventErrorTrimmedLength(tenantId, message) ==
    IF ~isValidTenant(tenantId) THEN InvalidTenantError
    ELSE IF FalsyText(message) \/ message.kind # "string" THEN MessageRequiredError
    ELSE IF Len(Trim(message.val)) > maxEventMessageLength THEN MessageTooLongError
    ELSE ""

\* createEvent with the length check ahead of the presence and type check
createEventErrorLengthFirst(tenantId, message) ==
    IF ~isValidTenant(tenantId) THEN InvalidTenantError
    ELSE IF Len(message.val) > maxEventMessageLength THEN MessageTooLongError
    ELSE IF FalsyText(message) \/ message.kind # "string" THEN MessageRequiredError
    ELSE ""

\* the checks of createEvent, in order; "" when all pass
createEventError(tenantId, message) ==
    IF ~isValidTenant(tenantId) THEN InvalidTenantError
    ELSE IF FalsyText(message) \/ message.kind # "string" THEN MessageRequiredError
    ELSE IF Len(message.val) > maxEventMessageLength THEN MessageTooLongError
    ELSE ""

\* "Create event object"
newEvent(tenantId, message, id, now) ==
    [id |-> id, tenant_id |-> tenantId.val, message |-> Trim(message.val), timestamp |-> now]

\* an emit that invokes no listener
emitToNoListener(ls, rcv, rms, tenantId, event, now) == rcv

\* EventEmitter.emit('eventCreated', {tenantId, event}): listeners run in order
RECURSIVE emitEventCreated(_, _, _, _, _, _)
emitEventCreated(ls, rcv, rms, tenantId, event, now) ==
    IF ls = <<>>
    THEN rcv
    ELSE IF Head(ls) = "throwingObserver"
    THEN rcv
    ELSE emitEventCreated(Tail(ls),
                          IF Head(ls) = "broadcastToTenant"
                          THEN broadcastToTenant(rcv, rms, tenantId, event, now)
                          ELSE rcv,
                          rms, tenantId, event, now)

\* the error a listener throws out of emit, and so out of createEvent; "" when none throws
ObserverError == "Observer failed"

emitError(ls) ==
    IF \E i \in 1..Len(ls) : ls[i] = "throwingObserver" THEN ObserverError ELSE ""

\* the listeners emit has invoked when it returns or throws: all of them, or
\* those up to the first that throws
invokedListeners(ls) ==
    IF emitError(ls) = ""
    THEN ls
    ELSE SubSeq(ls, 1, CHOOSE i \in 1..Len(ls) :
                          /\ ls[i] = "throwingObserver"
                          /\ \A k \in 1..(i - 1) : ls[k] # "throwingObserver")

\* the log as listeners would find it were emit to run ahead of addEvent
logBeforeStore(list, event) == list

\* the tenant's log as the listeners find it: addEvent has run before emit
logSeenByListeners(list, event) == addEvent(list, event)

\* per invoked listener, whether it found the new event at the head of the log
notifications(ls, list, event) ==
    [i \in 1..Len(invokedListeners(ls)) |->
        [listener |-> ls[i],
         sawStored |-> /\ Len(logSeenByListeners(list, event)) > 0
                       /\ logSeenByListeners(list, event)[1] = event]]

\* validateEventData(eventData): eventData is null or an object with a message
validateEventData(eventData) ==
    IF eventData.kind # "object"
    THEN [isValid |-> FALSE, errors |-> <<"Event data is required">>]
    ELSE LET message == eventData.message
             errors ==
                 IF FalsyText(message) \/ message.kind # "string"
                     THEN <<MessageRequiredError>>
                 ELSE IF Len(message.val) > maxEventMessageLength
                     THEN <<MessageTooLongError>>
                 ELSE IF Len(Trim(message.val)) = 0
                     THEN <<"Message cannot be empty">>
                 ELSE <<>>
         IN  [isValid |-> Len(errors) = 0, errors |-> errors]

\* concatenation of a sequence of texts
RECURSIVE FlattenRange(_, _, _)
FlattenRange(parts, lo, hi) ==
    IF lo > hi THEN <<>>
    ELSE IF lo = hi THEN parts[lo]
    ELSE LET mid == (lo + hi) \div 2
         IN  FlattenRange(parts, lo, mid) \o FlattenRange(parts, mid + 1, hi)

Flatten(parts) == FlattenRange(parts, 1, Len(parts))

\* String.prototype.replace(/c/g, replacement)
ReplaceAll(s, c, replacement) ==
    Flatten([i \in 1..Len(s) |-> IF s[i] = c THEN replacement ELSE <<s[i]>>])

AmpEntity == <<"&", "a", "m", "p", ";">>

LtEntity == <<"&", "l", "t", ";">>

GtEntity == <<"&", "g", "t", ";">>

QuotEntity == <<"&", "q", "u", "o", "t", ";">>

AposEntity == <<"&", "#", "x", "2", "7", ";">>

SlashEntity == <<"&", "#", "x", "2", "F", ";">>

\* the replace passes with the ampersand pass last instead of first
escapeHtmlAmpLast(s) ==
    ReplaceAll(
      ReplaceAll(
        ReplaceAll(
          ReplaceAll(
            ReplaceAll(
              ReplaceAll(s, "<", LtEntity),
              ">", GtEntity),
            "\"", QuotEntity),
          "'", AposEntity),
        "/", SlashEntity),
      "&", AmpEntity)

\* the six replace passes of sanitizeMessage, in the order of the code
escapeHtml(s) ==
    ReplaceAll(
      ReplaceAll(
        ReplaceAll(
          ReplaceAll(
            ReplaceAll(
              ReplaceAll(s, "&", AmpEntity),
              "<", LtEntity),
            ">", GtEntity),
          "\"", QuotEntity),
        "'", AposEntity),
      "/", SlashEntity)

sanitizeMessage(message) ==
    IF message.kind # "string" THEN Str(<<>>) ELSE Str(Trim(escapeHtml(message.val)))

\* getSupportedTenants(): a copy of config.supportedTenants
getSupportedTenants == config.supportedTenants

\* a caller's write to an array that is config.supportedTenants itself
writeThroughReference(cfg, written) == [cfg EXCEPT !.supportedTenants = written]

\* what a caller's write to the array getSupportedTenants returned does to
\* config: nothing, the array is a copy ([...config.supportedTenants])
writeThroughCopy(cfg, written) == cfg

\* stats whose total is overwritten by each tenant's count
getEventStatsLastCount ==
    [totalEvents |-> getEventCount(Str(getSupportedTenants[Len(getSupportedTenants)])),
     tenantStats |-> [t \in TenantIds |-> getEventCount(Str(t))]]

\* getEventStats: the loop over the supported tenants, from tenant i on
RECURSIVE statsLoop(_, _)
statsLoop(stats, i) ==
    IF i > Len(getSupportedTenants)
    THEN stats
    ELSE LET tenantId == getSupportedTenants[i]
             count == getEventCount(Str(tenantId))
         IN  statsLoop([totalEvents |-> stats.totalEvents + count,
                        tenantStats |-> MapSet(stats.tenantStats, tenantId, count)],
                       i + 1)

getEventStats == statsLoop([totalEvents |-> 0, tenantStats |-> EmptyMap], 1)

-----------------------------------------------------------------------------
(* Request path of POST /api/events *)

\* validateTenant: "" when the header names a supported tenant
validateTenantError(tenantId) ==
    IF FalsyId(tenantId) THEN "MISSING_TENANT_HEADER"
    ELSE IF ~isValidTenant(tenantId) THEN "INVALID_TENANT_ID"
    ELSE ""

\* createEventValidation: isString, isLength({min: 1}), isLength({max}); TRUE when all pass
createEventValidation(message) ==
    /\ message.kind = "string"
    /\ Len(message.val) >= 1
    /\ Len(message.val) <= maxEventMessageLength

\* errorHandler: the code of the response for an error thrown by createEvent
errorCode(error) ==
    IF error = InvalidTenantError THEN "INVALID_TENANT"
    ELSE IF error = MessageTooLongError THEN "MESSAGE_TOO_LONG"
    ELSE IF error = MessageRequiredError THEN "MISSING_MESSAGE"
    ELSE "INTERNAL_ERROR"

-----------------------------------------------------------------------------
(* Request path of GET /api/events *)

Digits == {"0", "1", "2", "3", "4", "5", "6", "7", "8", "9"}

DigitValue(c) ==
    CASE c = "0" -> 0 [] c = "1" -> 1 [] c = "2" -> 2 [] c = "3" -> 3 [] c = "4" -> 4
      [] c = "5" -> 5 [] c = "6" -> 6 [] c = "7" -> 7 [] c = "8" -> 8 [] c = "9" -> 9

\* the number the first n characters of s, all digits, denote
RECURSIVE DigitsValue(_, _)
DigitsValue(s, n) ==
    IF n = 0 THEN 0 ELSE 10 * DigitsValue(s, n - 1) + DigitValue(s[n])

\* Number.parseInt(s, 10): leading white space is skipped, a sign is read, then
\* the longest run of digits; what follows the digits is ignored; NaN when
\* there is no digit to read
parseInt(s) ==
    LET trimmed == Trim(s)
        signed == trimmed # <<>> /\ trimmed[1] \in {"-", "+"}
        body == IF signed THEN Tail(trimmed) ELSE trimmed
        n == CHOOSE k \in 0..Len(body) :
                 /\ \A i \in 1..k : body[i] \in Digits
                 /\ k < Len(body) => body[k + 1] \notin Digits
        magnitude == DigitsValue(body, n)
    IN  IF n = 0
        THEN [isNaN |-> TRUE, value |-> 0]
        ELSE [isNaN |-> FALSE,
              value |-> IF signed /\ trimmed[1] = "-" THEN 0 - magnitude ELSE magnitude]

\* limitParam ? Number.parseInt(limitParam, 10) : 50
requestedLimit(limitParam) ==
    IF ~FalsyText(limitParam)
    THEN parseInt(limitParam.val)
    ELSE [isNaN |-> FALSE, value |-> DefaultLimit]

\* "Validate limit parameter": TRUE when the controller throws INVALID_LIMIT
invalidLimit(limitParam) ==
    /\ ~FalsyText(limitParam)
    /\ LET limit == requestedLimit(limitParam)
       IN  limit.isNaN \/ limit.value < LowestLimit \/ limit.value > HighestLimit

-----------------------------------------------------------------------------
(* Initial state: the services are constructed and app.js has subscribed the *)
(* socket service to the event service.                                      *)

NoOp == [op |-> "none"]

Init ==
    /\ tenantEvents = [t \in TenantIds |-> <<>>]
    /\ connectedClients = EmptyMap
    /\ rooms = [t \in TenantIds |-> {}]
    /\ sockets = [s \in Sockets |-> [status |-> "idle", tenantId |-> ""]]
    /\ received = [s \in Sockets |-> <<>>]
    /\ listeners = <<"broadcastToTenant">>
    /\ nextId = 1
    /\ clock = 0
    /\ stored = [t \in TenantIds |-> <<>>]
    /\ lastOp = NoOp
    /\ config = [supportedTenants |-> supportedTenants]

-----------------------------------------------------------------------------
(* Actions *)

\* the effect of EventService.createEvent(tenantId, message) on the services
createEventCall(tenantId, message) ==
    LET event == newEvent(tenantId, message, nextId, clock)
    IN  IF createEventError(tenantId, message) # ""
        THEN UNCHANGED <<config, tenantEvents, connectedClients, rooms, sockets, received,
                         listeners, nextId, clock, stored>>
        ELSE /\ tenantEvents' = [tenantEvents EXCEPT ![tenantId.val] = addEvent(@, event)]
             /\ received' = emitEventCreated(listeners, received, rooms, tenantId, event, clock)
             /\ nextId' = nextId + 1
             /\ stored' = [stored EXCEPT ![tenantId.val] =
                              Append(@, [via |-> "createEvent", event |-> event])]
             /\ UNCHANGED <<config, connectedClients, rooms, sockets, listeners, clock>>

\* what createEvent returns or throws
createEventResult(tenantId, message) ==
    LET error == createEventError(tenantId, message)
    IN  IF error # ""
        THEN [status |-> "error", error |-> error]
        ELSE LET event == newEvent(tenantId, message, nextId, clock)
                 thrown == emitError(listeners)
             IN  [status |-> IF thrown = "" THEN "ok" ELSE "error", error |-> thrown,
                  event |-> event,
                  notified |-> notifications(listeners, tenantEvents[tenantId.val], event)]

\* EventService.createEvent(tenantId, message), called directly
CreateEvent(tenantId, message) ==
    /\ createEventCall(tenantId, message)
    /\ lastOp' = [op |-> "createEvent", tenantId |-> tenantId, message |-> message,
                  result |-> createEventResult(tenantId, message)]

\* POST /api/events with header X-Tenant-ID and body {message}:
\* validateTenant, createEventValidation and its trim, then the controller
PostEvent(tenantId, message) ==
    IF validateTenantError(tenantId) # ""
    THEN /\ lastOp' = [op |-> "POST /api/events", tenantId |-> tenantId, message |-> message,
                       status |-> 400, code |-> validateTenantError(tenantId)]
         /\ UNCHANGED <<config, tenantEvents, connectedClients, rooms, sockets, received,
                        listeners, nextId, clock, stored>>
    ELSE IF ~createEventValidation(message)
    THEN /\ lastOp' = [op |-> "POST /api/events", tenantId |-> tenantId, message |-> message,
                       status |-> 400, code |-> "VALIDATION_ERROR"]
         /\ UNCHANGED <<config, tenantEvents, connectedClients, rooms, sockets, received,
                        listeners, nextId, clock, stored>>
    ELSE LET sanitizedMessage == sanitizeMessage(Str(Trim(message.val)))
             result == createEventResult(tenantId, sanitizedMessage)
         IN  /\ createEventCall(tenantId, sanitizedMessage)
             /\ lastOp' =
                  IF result.status = "ok"
                  THEN [op |-> "POST /api/events", tenantId |-> tenantId,
                        message |-> message, status |-> 201, code |-> "",
                        data |-> result.event]
                  ELSE [op |-> "POST /api/events", tenantId |-> tenantId,
                        message |-> message, status |-> 400,
                        code |-> errorCode(result.error)]

\* EventService.validateEventData(eventData)
ValidateEventData(eventData) ==
    /\ lastOp' = [op |-> "validateEventData", eventData |-> eventData,
                  result |-> validateEventData(eventData)]
    /\ UNCHANGED <<config, tenantEvents, connectedClients, rooms, sockets, received,
                   listeners, nextId, clock, stored>>

\* TenantService.addEvent(tenantId, event), called directly
AddEvent(tenantId, event) ==
    IF ~isValidTenant(tenantId)
    THEN /\ lastOp' = [op |-> "addEvent", tenantId |-> tenantId, event |-> event,
                       result |-> [status |-> "error", error |-> InvalidTenantError]]
         /\ UNCHANGED <<config, tenantEvents, connectedClients, rooms, sockets, received,
                        listeners, nextId, clock, stored>>
    ELSE /\ tenantEvents' = [tenantEvents EXCEPT ![tenantId.val] = addEvent(@, event)]
         /\ stored' = [stored EXCEPT ![tenantId.val] =
                          Append(@, [via |-> "addEvent", event |-> event])]
         /\ lastOp' = [op |-> "addEvent", tenantId |-> tenantId, event |-> event,
                       result |-> [status |-> "ok", error |-> ""]]
         /\ UNCHANGED <<config, connectedClients, rooms, sockets, received, listeners, nextId, clock>>

\* a clear that answers an unknown tenant as if it had cleared it
ClearLenient(tenantId) ==
    /\ tenantEvents' = [t \in DOMAIN tenantEvents |->
                           IF Str(t) = tenantId THEN <<>> ELSE tenantEvents[t]]
    /\ stored' = [t \in DOMAIN stored |-> IF Str(t) = tenantId THEN <<>> ELSE stored[t]]
    /\ lastOp' = [op |-> "clearTenantEvents", tenantId |-> tenantId,
                  result |-> [status |-> "ok", error |-> ""]]
    /\ UNCHANGED <<config, connectedClients, rooms, sockets, received, listeners, nextId, clock>>

\* a clear that empties the log of every tenant
ClearEveryLog(tenantId) ==
    IF ~isValidTenant(tenantId)
    THEN /\ lastOp' = [op |-> "clearTenantEvents", tenantId |-> tenantId,
                       result |-> [status |-> "error", error |-> InvalidTenantError]]
         /\ UNCHANGED <<config, tenantEvents, connectedClients, rooms, sockets, received,
                        listeners, nextId, clock, stored>>
    ELSE /\ tenantEvents' = [t \in DOMAIN tenantEvents |-> <<>>]
         /\ stored' = [t \in DOMAIN stored |-> <<>>]
         /\ lastOp' = [op |-> "clearTenantEvents", tenantId |-> tenantId,
                       result |-> [status |-> "ok", error |-> ""]]
         /\ UNCHANGED <<config, connectedClients, rooms, sockets, received, listeners, nextId, clock>>

\* TenantService.clearTenantEvents(tenantId)
ClearTenantEvents(tenantId) ==
    IF ~isValidTenant(tenantId)
    THEN /\ lastOp' = [op |-> "clearTenantEvents", tenantId |-> tenantId,
                       result |-> [status |-> "error", error |-> InvalidTenantError]]
         /\ UNCHANGED <<config, tenantEvents, connectedClients, rooms, sockets, received,
                        listeners, nextId, clock, stored>>
    ELSE /\ tenantEvents' = [tenantEvents EXCEPT ![tenantId.val] = <<>>]
         /\ stored' = [stored EXCEPT ![tenantId.val] = <<>>]
         /\ lastOp' = [op |-> "clearTenantEvents", tenantId |-> tenantId,
                       result |-> [status |-> "ok", error |-> ""]]
         /\ UNCHANGED <<config, connectedClients, rooms, sockets, received, listeners, nextId, clock>>

\* a client opens a socket with handshake query parameter tenant:
\* validateSocketTenant, then the 'connection' handler handleConnection
Connect(s, tenantId) ==
    /\ sockets[s].status = "idle"
    /\ LET error == validateSocketTenantError(tenantId)
       IN  IF error # ""
           THEN /\ sockets' = [sockets EXCEPT ![s] = [status |-> "rejected", tenantId |-> ""]]
                /\ lastOp' = [op |-> "connect", socket |-> s, tenantId |-> tenantId,
                              result |-> [status |-> "error", error |-> error]]
                /\ UNCHANGED <<config, tenantEvents, connectedClients, rooms, received, listeners,
                               nextId, clock, stored>>
           ELSE /\ sockets' = [sockets EXCEPT ![s] = [status |-> "connected",
                                                      tenantId |-> tenantId.val]]
                /\ rooms' = JoinRoom(rooms, tenantId.val, s)
                /\ connectedClients' = trackConnection(connectedClients, tenantId.val, s)
                /\ received' =
                       sendInitialEvents(
                           Emit(received, s, ConnectionEstablishedPacket(tenantId.val, clock)),
                           s, recentEventsFor(tenantId))
                /\ lastOp' = [op |-> "connect", socket |-> s, tenantId |-> tenantId,
                              result |-> [status |-> "ok", error |-> ""]]
                /\ UNCHANGED <<config, tenantEvents, listeners, nextId, clock, stored>>

\* a connected socket closes: socket.io takes it out of its rooms, then the
\* 'disconnect' handler handleDisconnection runs
Disconnect(s) ==
    /\ sockets[s].status = "connected"
    /\ sockets' = [sockets EXCEPT ![s].status = "disconnected"]
    /\ rooms' = LeaveAllRooms(rooms, s)
    /\ connectedClients' = untrackConnection(connectedClients, sockets[s].tenantId, s)
    /\ lastOp' = [op |-> "disconnect", socket |-> s,
                  result |-> [status |-> "ok", error |-> ""]]
    /\ UNCHANGED <<config, tenantEvents, received, listeners, nextId, clock, stored>>

\* handleDisconnection(socket) for a socket that is not connected: one that
\* has closed already, or has no tenant because it never got past the handshake
HandleDisconnection(s) ==
    /\ sockets[s].status # "connected"
    /\ connectedClients' = untrackConnection(connectedClients, sockets[s].tenantId, s)
    /\ lastOp' = [op |-> "handleDisconnection", socket |-> s,
                  result |-> [status |-> "ok", error |-> ""]]
    /\ UNCHANGED <<config, tenantEvents, rooms, sockets, received, listeners, nextId, clock, stored>>

\* disconnectAll(): io.disconnectSockets() closes every socket, each leaving
\* its rooms and running its 'disconnect' handler; then connectedClients.clear()
DisconnectAll ==
    LET open == {s \in Sockets : sockets[s].status = "connected"}
    IN  /\ sockets' = [s \in Sockets |->
                          IF s \in open THEN [sockets[s] EXCEPT !.status = "disconnected"]
                          ELSE sockets[s]]
        /\ rooms' = [r \in DOMAIN rooms |-> rooms[r] \ open]
        /\ connectedClients' = EmptyMap
        /\ lastOp' = [op |-> "disconnectAll", result |-> [status |-> "ok", error |-> ""]]
        /\ UNCHANGED <<config, tenantEvents, received, listeners, nextId, clock, stored>>

\* socketService.broadcastToTenant(tenantId, event), called directly
Broadcast(tenantId, event) ==
    /\ received' = broadcastToTenant(received, rooms, tenantId, event, clock)
    /\ lastOp' = [op |-> "broadcastToTenant", tenantId |-> tenantId, event |-> event,
                  result |-> [status |-> "ok", error |-> ""]]
    /\ UNCHANGED <<config, tenantEvents, connectedClients, rooms, sockets, listeners,
                   nextId, clock, stored>>

\* eventService.on('eventCreated', listener): subscribeToEventService adds the
\* broadcasting listener; any other caller may add an observer of its own,
\* one that returns or one that throws
Subscribe(listener) ==
    /\ listeners' = Append(listeners, listener)
    /\ lastOp' = [op |-> "on", listener |-> listener,
                  result |-> [status |-> "ok", error |-> ""]]
    /\ UNCHANGED <<config, tenantEvents, connectedClients, rooms, sockets, received,
                   nextId, clock, stored>>

\* the wall clock advances between handlers
Tick ==
    /\ clock < MaxClock
    /\ clock' = clock + 1
    /\ UNCHANGED <<config, tenantEvents, connectedClients, rooms, sockets, received, listeners,
                   nextId, stored, lastOp>>

\* TenantService.getEvents(tenantId, limit), called directly
GetEvents(tenantId, limit) ==
    /\ lastOp' =
         [op |-> "getEvents", tenantId |-> tenantId, limit |-> limit,
          result |-> IF ~isValidTenant(tenantId)
                     THEN [status |-> "error", error |-> InvalidTenantError]
                     ELSE [status |-> "ok", error |-> "",
                           events |-> getEvents(tenantEvents[tenantId.val], limit)]]
    /\ UNCHANGED <<config, tenantEvents, connectedClients, rooms, sockets, received,
                   listeners, nextId, clock, stored>>

\* TenantService.getEventCount(tenantId), called directly
GetEventCount(tenantId) ==
    /\ lastOp' = [op |-> "getEventCount", tenantId |-> tenantId,
                  result |-> [status |-> "ok", error |-> "",
                              count |-> getEventCount(tenantId)]]
    /\ UNCHANGED <<config, tenantEvents, connectedClients, rooms, sockets, received,
                   listeners, nextId, clock, stored>>

\* EventService.getEventStats(), called directly
GetEventStats ==
    /\ lastOp' = [op |-> "getEventStats",
                  result |-> [status |-> "ok", error |-> "", stats |-> getEventStats]]
    /\ UNCHANGED <<config, tenantEvents, connectedClients, rooms, sockets, received,
                   listeners, nextId, clock, stored>>

\* TenantService.isValidTenant(tenantId), called directly
IsValidTenant(tenantId) ==
    /\ lastOp' = [op |-> "isValidTenant", tenantId |-> tenantId,
                  result |-> [status |-> "ok", error |-> "",
                              valid |-> isValidTenant(tenantId)]]
    /\ UNCHANGED <<config, tenantEvents, connectedClients, rooms, sockets, received,
                   listeners, nextId, clock, stored>>

\* TenantService.getSupportedTenants(), called directly
GetSupportedTenants ==
    /\ lastOp' = [op |-> "getSupportedTenants",
                  result |-> [status |-> "ok", error |-> "",
                              tenants |-> getSupportedTenants]]
    /\ UNCHANGED <<config, tenantEvents, connectedClients, rooms, sockets, received,
                   listeners, nextId, clock, stored>>

\* the caller writes to the array getSupportedTenants returned
CallerWritesTenants(written) ==
    /\ lastOp.op = "getSupportedTenants"
    /\ lastOp' = [lastOp EXCEPT !.result.tenants = written]
    /\ config' = writeThroughCopy(config, written)
    /\ UNCHANGED <<tenantEvents, connectedClients, rooms, sockets, received,
                   listeners, nextId, clock, stored>>

\* GET /api/events with header X-Tenant-ID and query parameter limit:
\* validateTenant, then the controller getEvents; errorHandler answers the
\* AppError of an invalid limit with its status and the default code
GetEventsRequest(tenantId, limitParam) ==
    /\ lastOp' =
         IF validateTenantError(tenantId) # ""
         THEN [op |-> "GET /api/events", tenantId |-> tenantId, limitParam |-> limitParam,
               status |-> 400, code |-> validateTenantError(tenantId), listed |-> FALSE]
         ELSE IF invalidLimit(limitParam)
         THEN [op |-> "GET /api/events", tenantId |-> tenantId, limitParam |-> limitParam,
               status |-> 400, code |-> "INTERNAL_ERROR", listed |-> FALSE]
         ELSE LET limit == requestedLimit(limitParam).value
                  events == getEvents(tenantEvents[tenantId.val], limit)
              IN  [op |-> "GET /api/events", tenantId |-> tenantId, limitParam |-> limitParam,
                   status |-> 200, code |-> "", listed |-> TRUE, limit |-> limit,
                   events |-> events, count |-> Len(events)]
    /\ UNCHANGED <<config, tenantEvents, connectedClients, rooms, sockets, received,
                   listeners, nextId, clock, stored>>

\* the events the caller holds after the last call: the one createEvent
\* returned, or the elements of the array getEvents returned
ReturnedEvents ==
    IF lastOp.op = "createEvent" /\ lastOp.result.status = "ok"
        THEN {lastOp.result.event}
    ELSE IF lastOp.op = "getEvents" /\ lastOp.result.status = "ok"
        THEN Range(lastOp.result.events)
    ELSE {}

\* an assignment to the message field of the object with this id, seen
\* through every reference to the object
SetMessage(list, id, message) ==
    [i \in 1..Len(list) |->
        IF list[i].id = id THEN [list[i] EXCEPT !.message = message] ELSE list[i]]

\* the caller assigns to a field of an event it was returned: unshift(event),
\* slice, the spread and "return event" all hand on the reference to the one
\* event object, so the assignment is to the object the log holds
CallerSetsField(e, message) ==
    /\ e \in ReturnedEvents
    /\ tenantEvents' = [t \in DOMAIN tenantEvents |-> SetMessage(tenantEvents[t], e.id, message)]
    /\ lastOp' = [op |-> "callerSetsField", id |-> e.id, message |-> message,
                  result |-> [status |-> "ok", error |-> ""]]
    /\ UNCHANGED <<config, connectedClients, rooms, sockets, received, listeners, nextId, clock, stored>>

\* the caller pushes onto or pops from the array getEvents returned: slice
\* and the spread build a new array, so the log's array is not touched
CallerChangesList ==
    /\ lastOp.op = "getEvents" /\ lastOp.result.status = "ok"
    /\ lastOp' = [op |-> "callerChangesList", result |-> [status |-> "ok", error |-> ""]]
    /\ UNCHANGED <<config, tenantEvents, connectedClients, rooms, sockets, received,
                   listeners, nextId, clock, stored>>

-----------------------------------------------------------------------------
(* Inputs *)

CatalogInputs == {Str(t) : t \in TenantIds}

\* identifiers a caller may pass: cataloged, unknown, empty, absent, not a string
TenantInputs == CatalogInputs \cup {Str("tenant_c")}

AllTenantInputs ==
    TenantInputs \cup {Str(""), NonStringId("undefined"), NonStringId("number")}

ShortMessage == Str(<<"m">>)

\* values that are not text: undefined, null, 123, {}, []
NonTextInputs == {NonText(k) : k \in {"undefined", "null", "number", "object", "array"}}

\* texts around the length limit, with and without surrounding white space
BoundaryLengths ==
    {0, 1, maxEventMessageLength - 1, maxEventMessageLength, maxEventMessageLength + 1}

BoundaryTexts ==
    {Rep(" ", i) \o Rep("a", n) \o Rep(" ", k) :
        i \in 0..MaxPad, n \in BoundaryLengths, k \in 0..MaxPad}
    \cup {Rep(" ", n) : n \in {maxEventMessageLength, maxEventMessageLength + 1}}

\* an array with more elements than a message may have characters
LongArray == [kind |-> "array", val |-> Rep("a", maxEventMessageLength + 1)]

BoundaryMessages == {Str(x) : x \in BoundaryTexts} \cup NonTextInputs \cup {LongArray}

EventDataInputs ==
    {[kind |-> "null"]} \cup {[kind |-> "object", message |-> m] : m \in BoundaryMessages}

\* short texts over the reserved characters, a letter and a blank
Alphabet == {"&", "<", ">", "\"", "'", "/", "a", " "}

TextsOfLen(n) == [1..n -> Alphabet]

ShortTexts == UNION {TextsOfLen(n) : n \in 0..MaxTextLen}

\* events a caller of addEvent builds itself
AppendInputs ==
    {[id |-> 0, tenant_id |-> t, message |-> <<"x">>, timestamp |-> 0] : t \in TenantIds}

-----------------------------------------------------------------------------
(* Spec: the running service, with subscribers *)

CreateStep == nextId <= MaxCreates /\ \E t \in TenantInputs : CreateEvent(t, ShortMessage)

ClearStep == \E t \in TenantInputs : ClearTenantEvents(t)

ConnectStep == \E s \in Sockets, t \in TenantInputs : Connect(s, t)

DisconnectStep == \E s \in Sockets : Disconnect(s)

Next ==
    \/ CreateStep
    \/ ClearStep
    \/ ConnectStep
    \/ DisconnectStep

Spec == Init /\ [][Next]_vars

-----------------------------------------------------------------------------
(* SpecCap: one tenant's log is filled to NearCap by creates, after which    *)
(* creates, direct appends and clears of any tenant interleave freely.       *)

AppendedCount(t) == Cardinality({i \in 1..Len(stored[t]) : stored[t][i].via = "addEvent"})

FillStep ==
    /\ nextId <= NearCap
    /\ \E t \in TenantIds :
           /\ \A u \in TenantIds \ {t} : tenantEvents[u] = <<>>
           /\ CreateEvent(Str(t), ShortMessage)

LateCreateStep ==
    /\ nextId > NearCap
    /\ nextId <= MaxChain
    /\ \E t \in TenantInputs : CreateEvent(t, ShortMessage)

LateAppendStep ==
    /\ nextId > NearCap
    /\ \E t \in TenantInputs, e \in AppendInputs :
           /\ \A u \in TenantIds : AppendedCount(u) = 0
                                     \/ (u = t.val /\ AppendedCount(u) < MaxAppends)
           /\ AddEvent(t, e)

LateClearStep ==
    /\ nextId > NearCap
    /\ \E t \in TenantInputs : ClearTenantEvents(t)

NextCap ==
    \/ FillStep
    \/ LateCreateStep
    \/ LateAppendStep
    \/ LateClearStep

SpecCap == Init /\ [][NextCap]_vars

-----------------------------------------------------------------------------
(* SpecCreate: on a service with a subscriber and a few stored events, one   *)
(* call of createEvent or validateEventData on every kind of tenant          *)
(* identifier and message ends the behaviour.                                *)

Probed ==
    \/ lastOp.op = "validateEventData"
    \/ (lastOp.op = "createEvent" /\ lastOp.message # ShortMessage)

ContextCreateStep ==
    /\ ~Probed
    /\ nextId <= MaxContextCreates
    /\ \E t \in CatalogInputs : CreateEvent(t, ShortMessage)

WatcherConnectStep == ~Probed /\ \E t \in CatalogInputs : Connect(1, t)

BoundaryCreateStep ==
    ~Probed /\ \E t \in AllTenantInputs, m \in BoundaryMessages : CreateEvent(t, m)

BoundaryValidateStep == ~Probed /\ \E d \in EventDataInputs : ValidateEventData(d)

NextCreate ==
    \/ ContextCreateStep
    \/ WatcherConnectStep
    \/ BoundaryCreateStep
    \/ BoundaryValidateStep

SpecCreate == Init /\ [][NextCreate]_vars

-----------------------------------------------------------------------------
(* SpecText: one call, of createEvent or of POST /api/events, on a short     *)
(* text, on a fresh service.                                                 *)

TextCreateStep ==
    lastOp = NoOp /\ \E t \in CatalogInputs, x \in ShortTexts : CreateEvent(t, Str(x))

TextPostStep ==
    lastOp = NoOp /\ \E t \in TenantInputs, x \in ShortTexts : PostEvent(t, Str(x))

NextText ==
    \/ TextCreateStep
    \/ TextPostStep
    \/ Tick

SpecText == Init /\ [][NextText]_vars

-----------------------------------------------------------------------------
(* SpecList: a few creates, then listings with any limit; the caller may      *)
(* write to what a call returned; subscribers connect at any time.            *)

\* limits a caller passes: negative, zero, below, at and above the count
Limits == (0 - 1)..MaxLimit

EditedMessage == <<"e", "d", "i", "t">>

ListCreateStep ==
    nextId <= MaxListCreates /\ \E t \in CatalogInputs : CreateEvent(t, ShortMessage)

ListStep == \E t \in TenantInputs, limit \in Limits : GetEvents(t, limit)

CallerSetsFieldStep == \E e \in ReturnedEvents : CallerSetsField(e, EditedMessage)

ListConnectStep == \E t \in CatalogInputs : Connect(1, t)

NextList ==
    \/ ListCreateStep
    \/ ListStep
    \/ CallerSetsFieldStep
    \/ CallerChangesList
    \/ ListConnectStep

SpecList == Init /\ [][NextList]_vars

-----------------------------------------------------------------------------
(* SpecReplay: the first tenant's log grows past the replay limit while       *)
(* subscribers of either tenant connect.                                      *)

ReplayCreateStep ==
    nextId <= MaxReplayCreates /\ CreateEvent(Str(supportedTenants[1]), ShortMessage)

ReplayConnectStep == \E s \in Sockets, t \in CatalogInputs : Connect(s, t)

NextReplay ==
    \/ ReplayCreateStep
    \/ ReplayConnectStep

SpecReplay == Init /\ [][NextReplay]_vars

-----------------------------------------------------------------------------
(* SpecRegistry: sockets connect with any handshake, close, are closed all    *)
(* at once; events are created and broadcast directly.                        *)

\* the tenant query parameter of a handshake: cataloged, unknown, empty, absent
HandshakeInputs == TenantInputs \cup {Str(""), NonStringId("undefined")}

\* the event the tests broadcast directly
TestEvent(t) == [id |-> 0, tenant_id |-> t, message |-> <<"m">>, timestamp |-> 0]

RegistryCreateStep ==
    nextId <= MaxContextCreates /\ \E t \in CatalogInputs : CreateEvent(t, ShortMessage)

RegistryConnectStep == \E s \in Sockets, t \in HandshakeInputs : Connect(s, t)

RegistryDisconnectStep == \E s \in Sockets : Disconnect(s)

LeaveAgainStep == \E s \in Sockets : HandleDisconnection(s)

BroadcastStep ==
    /\ \A s \in Sockets : Len(received[s]) < MaxInbox
    /\ \E t \in TenantInputs : Broadcast(t, TestEvent(t.val))

NextRegistry ==
    \/ RegistryCreateStep
    \/ RegistryConnectStep
    \/ RegistryDisconnectStep
    \/ LeaveAgainStep
    \/ DisconnectAll
    \/ BroadcastStep

SpecRegistry == Init /\ [][NextRegistry]_vars

-----------------------------------------------------------------------------
(* SpecObservers: further listeners of 'eventCreated' are registered, some    *)
(* of which throw; events are created while a subscriber is connected.        *)

ListenerKinds == {"broadcastToTenant", "observer", "throwingObserver"}

SubscribeStep ==
    Len(listeners) < MaxListeners /\ \E l \in ListenerKinds : Subscribe(l)

ObservedCreateStep ==
    nextId <= MaxCreates /\ \E t \in CatalogInputs : CreateEvent(t, ShortMessage)

ObserverConnectStep == \E t \in CatalogInputs : Connect(1, t)

NextObservers ==
    \/ SubscribeStep
    \/ ObservedCreateStep
    \/ ObserverConnectStep

SpecObservers == Init /\ [][NextObservers]_vars

-----------------------------------------------------------------------------
(* SpecLog: the tenant logs through every operation of TenantService and the *)
(* statistics of EventService, with cataloged and uncataloged identifiers.   *)

LogCreateStep ==
    nextId <= MaxLogCreates /\ \E t \in TenantInputs : CreateEvent(t, ShortMessage)

LogAppendStep ==
    \E t \in AllTenantInputs, e \in AppendInputs :
        /\ \A u \in TenantIds : AppendedCount(u) < MaxLogAppends
        /\ AddEvent(t, e)

LogClearStep == \E t \in AllTenantInputs : ClearTenantEvents(t)

LogListStep == \E t \in AllTenantInputs, limit \in 0..MaxLogLimit : GetEvents(t, limit)

LogCountStep == \E t \in AllTenantInputs : GetEventCount(t)

NextLog ==
    \/ LogCreateStep
    \/ LogAppendStep
    \/ LogClearStep
    \/ LogListStep
    \/ LogCountStep
    \/ GetEventStats

SpecLog == Init /\ [][NextLog]_vars

-----------------------------------------------------------------------------
(* SpecCatalog: the catalog is listed and asked about, callers write to the  *)
(* arrays they were given, events are created.                               *)

\* tenants.push('new_tenant'), tenants.shift()
TenantWrites(held) ==
    {Append(held, x) : x \in {"new_tenant", "tenant_c"}}
        \cup (IF held = <<>> THEN {} ELSE {Tail(held)})

CatalogCreateStep ==
    nextId <= MaxCatalogCreates /\ \E t \in TenantInputs : CreateEvent(t, ShortMessage)

CatalogValidStep == \E t \in AllTenantInputs \cup {Str("new_tenant")} : IsValidTenant(t)

CallerWritesTenantsStep ==
    /\ lastOp.op = "getSupportedTenants"
    /\ \E written \in TenantWrites(lastOp.result.tenants) :
           Len(written) <= MaxHeldTenants /\ CallerWritesTenants(written)

NextCatalog ==
    \/ CatalogCreateStep
    \/ CatalogValidStep
    \/ GetSupportedTenants
    \/ CallerWritesTenantsStep

SpecCatalog == Init /\ [][NextCatalog]_vars

-----------------------------------------------------------------------------
(* SpecPost: on a service with a subscriber and a few stored events, one     *)
(* POST /api/events with a text near the length limit that ends in reserved  *)
(* characters ends the behaviour.                                            *)

ReservedChars == {"&", "<", ">", "\"", "'", "/"}

ReservedTexts ==
    {Rep("a", n) \o Rep(c, k) :
        n \in {maxEventMessageLength - 2, maxEventMessageLength - 1},
        k \in 0..MaxReserved, c \in ReservedChars}

Posted == lastOp.op = "POST /api/events"

PostContextStep == ~Posted /\ ContextCreateStep

PostWatcherStep == ~Posted /\ WatcherConnectStep

BoundaryPostStep ==
    ~Posted /\ \E t \in TenantInputs, x \in ReservedTexts : PostEvent(t, Str(x))

NextPost ==
    \/ PostContextStep
    \/ PostWatcherStep
    \/ BoundaryPostStep

SpecPost == Init /\ [][NextPost]_vars

-----------------------------------------------------------------------------
(* SpecGet: events are created and listed through GET /api/events with any   *)
(* short text, or none, as the limit.                                        *)

LimitAlphabet == {"0", "1", "a", "-"}

QueryLimits ==
    {NonText("undefined")}
        \cup {Str(x) : x \in UNION {[1..n -> LimitAlphabet] : n \in 0..MaxLimitLen}}

GetCreateStep ==
    nextId <= MaxGetCreates /\ \E t \in CatalogInputs : CreateEvent(t, ShortMessage)

GetRequestStep == \E t \in TenantInputs, l \in QueryLimits : GetEventsRequest(t, l)

NextGet ==
    \/ GetCreateStep
    \/ GetRequestStep

SpecGet == Init /\ [][NextGet]_vars

-----------------------------------------------------------------------------
(* Vocabulary of the properties *)

\* the identifier names a tenant of the catalog
InCatalog(id) == id.kind = "string" /\ \E i \in 1..Len(supportedTenants) : supportedTenants[i] = id.val

\* handles joined under tenant t: connected and not yet disconnected
JoinedUnder(t) == {s \in Sockets : sockets[s].status = "connected" /\ sockets[s].tenantId = t}

\* the events a packet carries
PacketEvents(p) ==
    IF p.type = "event_created" THEN {p.event}
    ELSE IF p.type = "initial_events" THEN Range(p.events)
    ELSE {}

HasPacket(s, type) == \E i \in 1..Len(received[s]) : received[s][i].type = type

\* everything stored in t's log since its last clear came from createEvent
OnlyCreates(t) == \A i \in 1..Len(stored[t]) : stored[t][i].via = "createEvent"

StoredEvents(t) == [i \in 1..Len(stored[t]) |-> stored[t][i].event]

CreateSucceeded == lastOp.op = "createEvent" /\ lastOp.result.status = "ok"

-----------------------------------------------------------------------------
(* C1 *)

\* C1: every event delivered to a subscriber handle, by live broadcast
\* (event_created) or by replay on connect (initial_events), has the tenant_id
\* the handle joined under.
C1_TenantIsolation ==
    \A s \in Sockets : \A i \in 1..Len(received[s]) :
        \A e \in PacketEvents(received[s][i]) : e.tenant_id = sockets[s].tenantId

\* two handles under different tenants, one reached by a broadcast and one by a replay
C1_Witness ==
    \E s1, s2 \in Sockets :
        /\ sockets[s1].tenantId = "tenant_a" /\ sockets[s2].tenantId = "tenant_b"
        /\ sockets[s1].status = "connected" /\ sockets[s2].status = "connected"
        /\ HasPacket(s1, "event_created")
        /\ HasPacket(s2, "initial_events")

-----------------------------------------------------------------------------
(* C2 *)

\* C2: a successful create(T, msg) has, when it returns, invoked delivery of the
\* new event once on every handle joined under T when it was called, and on no
\* other handle.
C2_DeliveredToJoined ==
    [][ (lastOp'.op = "createEvent" /\ lastOp'.result.status = "ok" /\ nextId' = nextId + 1)
        => \A s \in Sockets :
              IF s \in JoinedUnder(lastOp'.tenantId.val)
              THEN /\ Len(received'[s]) = Len(received[s]) + 1
                   /\ SubSeq(received'[s], 1, Len(received[s])) = received[s]
                   /\ received'[s][Len(received'[s])].type = "event_created"
                   /\ received'[s][Len(received'[s])].event = lastOp'.result.event
              ELSE received'[s] = received[s] ]_vars

\* a create for tenant_a has just returned, with one handle under each tenant
C2_Witness ==
    /\ CreateSucceeded
    /\ lastOp.tenantId.val = "tenant_a"
    /\ \E s1 \in JoinedUnder("tenant_a"), s2 \in JoinedUnder("tenant_b") :
          /\ received[s1][Len(received[s1])].type = "event_created"
          /\ received[s1][Len(received[s1])].event = lastOp.result.event
          /\ ~HasPacket(s2, "event_created")

-----------------------------------------------------------------------------
(* C3 *)

\* C3: after any sequence of append, create and clear operations each tenant's
\* event log holds at most 1000 events.
C3_LogBounded == \A t \in TenantIds : Len(tenantEvents[t]) <= 1000

\* a log at the cap after more than 1000 events were stored in it
C3_Witness ==
    \E t \in TenantIds : Len(tenantEvents[t]) = 1000 /\ Len(stored[t]) > 1000

-----------------------------------------------------------------------------
(* C4 *)

\* C4: the event a successful create(T, msg) returns has tenant_id T and is at
\* position 0 of list(T); after N <= 1000 successful creates on an empty log
\* of T, count(T) = N and the log holds the N events newest first.
C4_NewestFirst ==
    /\ CreateSucceeded =>
          LET t == lastOp.tenantId.val
          IN  /\ lastOp.result.event.tenant_id = t
              /\ Len(getEvents(tenantEvents[t], 0)) >= 1
              /\ getEvents(tenantEvents[t], 0)[1] = lastOp.result.event
    /\ \A t \in TenantIds :
          (OnlyCreates(t) /\ Len(stored[t]) <= 1000)
              => /\ getEventCount(Str(t)) = Len(stored[t])
                 /\ tenantEvents[t] = Reverse(StoredEvents(t))

\* exactly 1000 creates on an empty log, the last of them just returned
C4_Witness ==
    /\ CreateSucceeded
    /\ LET t == lastOp.tenantId.val
       IN  OnlyCreates(t) /\ Len(stored[t]) = 1000 /\ Len(tenantEvents[t]) = 1000

-----------------------------------------------------------------------------
(* C5 *)

\* C5: storing into a log that holds 1000 events drops exactly the oldest and
\* keeps the other 999 below the new one; after 1001 creates on an empty log
\* the count is 1000, the first-created event is absent and all later ones
\* are present.
C5_CapDropsOldest ==
    [][ \A t \in TenantIds :
          (Len(tenantEvents[t]) = 1000 /\ Len(stored'[t]) = Len(stored[t]) + 1)
          => /\ tenantEvents'[t] =
                    <<stored'[t][Len(stored'[t])].event>> \o SubSeq(tenantEvents[t], 1, 999)
             /\ ((\A i \in 1..Len(stored'[t]) : stored'[t][i].via = "createEvent")
                   /\ Len(stored'[t]) = 1001)
                => /\ Len(tenantEvents'[t]) = 1000
                   /\ \A i \in 1..1000 : tenantEvents'[t][i] # stored'[t][1].event
                   /\ \A k \in 2..1001 :
                         \E i \in 1..1000 : tenantEvents'[t][i] = stored'[t][k].event ]_vars

\* 1001 creates on an empty log have left 1000 events
C5_Witness ==
    \E t \in TenantIds :
        OnlyCreates(t) /\ Len(stored[t]) = 1001 /\ Len(tenantEvents[t]) = 1000

-----------------------------------------------------------------------------
(* C6 *)

\* C6: create with a tenant identifier that is not in the catalog fails with
\* the unknown-tenant error, changes no tenant's log and notifies no one.
C6_UnknownTenantRejected ==
    [][ (lastOp'.op = "createEvent" /\ ~InCatalog(lastOp'.tenantId))
        => /\ lastOp'.result.status = "error"
           /\ lastOp'.result.error = InvalidTenantError
           /\ tenantEvents' = tenantEvents
           /\ received' = received
           /\ nextId' = nextId ]_vars

\* an unknown-tenant create has failed while a log is non-empty and a handle is joined
C6_Witness ==
    /\ lastOp.op = "createEvent"
    /\ ~InCatalog(lastOp.tenantId)
    /\ lastOp.result.status = "error"
    /\ \E t \in TenantIds : Len(tenantEvents[t]) > 0
    /\ \E s \in Sockets : sockets[s].status = "connected"

-----------------------------------------------------------------------------
(* C7 *)

\* the message is absent, not text, or empty once surrounding white space is removed
UnusableMessage(m) == m.kind # "string" \/ \A i \in 1..Len(m.val) : m.val[i] \in WhiteSpace

\* C7: create with a catalog tenant fails with the invalid-message error, and
\* stores and announces nothing, when the message is absent, is not text, or
\* is empty after trimming (white-space-only input included).
C7_InvalidMessageRejected ==
    [][ (lastOp'.op = "createEvent" /\ InCatalog(lastOp'.tenantId)
            /\ UnusableMessage(lastOp'.message))
        => /\ lastOp'.result.status = "error"
           /\ lastOp'.result.error = MessageRequiredError
           /\ tenantEvents' = tenantEvents
           /\ received' = received ]_vars

-----------------------------------------------------------------------------
(* C8 *)

\* C8: create fails with the too-long error exactly when the length of the
\* message before trimming exceeds 500; a message of exactly 500 characters is
\* accepted and stored whole (as given when it has no surrounding white
\* space for the trim to remove); a longer message is rejected even when its
\* trimmed form has at most 500 characters.
C8_TooLongIffOver500 ==
    (lastOp.op = "createEvent" /\ InCatalog(lastOp.tenantId) /\ lastOp.message.kind = "string")
    => LET raw == lastOp.message.val
           t == lastOp.tenantId.val
       IN  /\ (lastOp.result.status = "error" /\ lastOp.result.error = MessageTooLongError)
                  <=> Len(raw) > 500
           /\ Len(raw) = 500
                  => /\ lastOp.result.status = "ok"
                     /\ tenantEvents[t][1] = lastOp.result.event
                     /\ Len(lastOp.result.event.message) <= 500
                     /\ (raw[1] \notin WhiteSpace /\ raw[500] \notin WhiteSpace)
                           => lastOp.result.event.message = raw

\* a message of 501 characters whose trimmed form has 500 has been rejected
C8_Witness ==
    /\ lastOp.op = "createEvent"
    /\ InCatalog(lastOp.tenantId)
    /\ lastOp.message.kind = "string"
    /\ Len(lastOp.message.val) = 501
    /\ Len(Trim(lastOp.message.val)) = 500
    /\ lastOp.result.status = "error"
    /\ lastOp.result.error = MessageTooLongError

-----------------------------------------------------------------------------
(* C9 *)

\* the entity of a reserved character, the character itself otherwise
EntityOf(c) ==
    CASE c = "&" -> <<"&", "a", "m", "p", ";">>
      [] c = "<" -> <<"&", "l", "t", ";">>
      [] c = ">" -> <<"&", "g", "t", ";">>
      [] c = "\"" -> <<"&", "q", "u", "o", "t", ";">>
      [] c = "'" -> <<"&", "#", "x", "2", "7", ";">>
      [] c = "/" -> <<"&", "#", "x", "2", "F", ";">>
      [] OTHER -> <<c>>

\* one pass over the text, each character replaced once
EscapeOnce(s) == Flatten([i \in 1..Len(s) |-> EntityOf(s[i])])

Entities == {EntityOf(c) : c \in {"&", "<", ">", "\"", "'", "/"}}

\* no literal < > " ' / and every & begins an entity
WellEscaped(s) ==
    /\ \A i \in 1..Len(s) : s[i] \notin {"<", ">", "\"", "'"}
    /\ \A i \in 1..Len(s) :
          s[i] = "/" => FALSE
    /\ \A i \in 1..Len(s) :
          s[i] = "&" => \E e \in Entities :
                           /\ i + Len(e) - 1 <= Len(s)
                           /\ SubSeq(s, i, i + Len(e) - 1) = e

\* C9 (as stated): the message of every event create produces is the trimmed
\* input with each of & < > " ' / replaced by its entity exactly once.
C9_CreateEscapes ==
    CreateSucceeded
    => /\ lastOp.result.event.message = EscapeOnce(Trim(lastOp.message.val))
       /\ WellEscaped(lastOp.result.event.message)

\* C9 (amended): the message of every event the request path POST /api/events
\* produces is the trimmed input with each of & < > " ' / replaced by its
\* entity exactly once, so it holds no literal < > " ' / and every & in it
\* begins an entity; the event is the newest of its tenant's log.
C9_RequestPathEscapes ==
    (lastOp.op = "POST /api/events" /\ lastOp.status = 201)
    => /\ lastOp.data.message = EscapeOnce(Trim(lastOp.message.val))
       /\ WellEscaped(lastOp.data.message)
       /\ tenantEvents[lastOp.tenantId.val][1] = lastOp.data

\* a posted message holding an ampersand and another reserved character was stored
C9_Witness ==
    /\ lastOp.op = "POST /api/events"
    /\ lastOp.status = 201
    /\ "&" \in Range(lastOp.message.val)
    /\ Range(lastOp.message.val) \cap {"<", ">", "\"", "'", "/"} # {}

-----------------------------------------------------------------------------
(* C10 *)

\* C10: validate evaluates the presence, length and post-trim-emptiness
\* conditions independently and returns every error that applies (both the
\* length and the emptiness error for a white-space-only message longer than
\* 500), and valid is true exactly when the error list is empty.
C10_AllErrorsCollected ==
    (lastOp.op = "validateEventData" /\ lastOp.eventData.kind = "object")
    => LET m == lastOp.eventData.message
           errors == Range(lastOp.result.errors)
           isText == m.kind = "string"
       IN  /\ (~isText \/ Len(m.val) = 0) => MessageRequiredError \in errors
           /\ (isText /\ Len(m.val) > 500) => MessageTooLongError \in errors
           /\ (isText /\ Len(m.val) > 0 /\ \A i \in 1..Len(m.val) : m.val[i] \in WhiteSpace)
                  => "Message cannot be empty" \in errors
           /\ lastOp.result.isValid <=> (lastOp.result.errors = <<>>)

-----------------------------------------------------------------------------
(* C11 *)

\* C11: for every cataloged tenant and every limit passed (here: every limit
\* from zero up), list(T, limit) returns exactly the first min(limit, count(T))
\* events of the log, newest first, and never more than limit events.
C11_ListTakesFirstLimit ==
    (lastOp.op = "getEvents" /\ InCatalog(lastOp.tenantId) /\ lastOp.limit >= 0)
    => LET log == tenantEvents[lastOp.tenantId.val]
           n == IF lastOp.limit < Len(log) THEN lastOp.limit ELSE Len(log)
       IN  /\ lastOp.result.status = "ok"
           /\ lastOp.result.events = [i \in 1..n |-> log[i]]
           /\ Len(lastOp.result.events) <= lastOp.limit

-----------------------------------------------------------------------------
(* C12 *)

\* C12: nothing a caller does to a value list or create returned (adding or
\* removing elements of the returned sequence, changing a field of a returned
\* event) changes the stored events, and so what list, count and replay return.
C12_ReturnedValuesAreCopies ==
    [][ lastOp'.op \in {"callerSetsField", "callerChangesList"}
        => tenantEvents' = tenantEvents ]_vars

-----------------------------------------------------------------------------
(* C13 *)

\* the packets a step has added to the end of what socket s was sent
NewPackets(s) == SubSeq(received'[s], Len(received[s]) + 1, Len(received'[s]))

\* the up-to-10 newest events of a log, newest first
NewestTen(log) == [i \in 1..(IF Len(log) < 10 THEN Len(log) ELSE 10) |-> log[i]]

JoinAccepted == lastOp'.op = "connect" /\ lastOp'.result.status = "ok"

\* C13 (as stated): on a handle's join under T the handle is delivered one
\* replay batch equal to list(T, 10) taken at join time, and no other handle
\* is delivered it.
C13_ReplayBatchOnJoin ==
    [][ JoinAccepted
        => LET s == lastOp'.socket
               log == tenantEvents[lastOp'.tenantId.val]
           IN  /\ Len(received'[s]) = Len(received[s]) + 2
               /\ NewPackets(s)[2].type = "initial_events"
               /\ NewPackets(s)[2].events = NewestTen(log)
               /\ \A x \in Sockets \ {s} : received'[x] = received[x] ]_vars

\* C13 (amended): on a handle's join under T, when T's log is not empty the
\* handle is delivered exactly one replay batch, equal to list(T, 10) taken at
\* join time (the up-to-10 newest events, newest first, with their count), and
\* when the log is empty it is delivered no batch; no other handle is
\* delivered anything by the join.
C13_ReplayBatchWhenLogNotEmpty ==
    [][ JoinAccepted
        => LET s == lastOp'.socket
               log == tenantEvents[lastOp'.tenantId.val]
           IN  /\ SubSeq(received'[s], 1, Len(received[s])) = received[s]
               /\ NewPackets(s)[1].type = "connection_established"
               /\ IF Len(log) = 0
                  THEN Len(NewPackets(s)) = 1
                  ELSE /\ Len(NewPackets(s)) = 2
                       /\ NewPackets(s)[2].type = "initial_events"
                       /\ NewPackets(s)[2].events = NewestTen(log)
                       /\ NewPackets(s)[2].count = Len(NewestTen(log))
               /\ \A x \in Sockets \ {s} : received'[x] = received[x] ]_vars

\* a handle has just joined a tenant whose log holds more than 10 events, next
\* to a handle that joined the same tenant earlier
C13_Witness ==
    /\ lastOp.op = "connect" /\ lastOp.result.status = "ok"
    /\ LET s == lastOp.socket
           t == lastOp.tenantId.val
       IN  /\ Len(tenantEvents[t]) > 10
           /\ received[s][Len(received[s])].type = "initial_events"
           /\ Len(received[s][Len(received[s])].events) = 10
           /\ \E x \in JoinedUnder(t) \ {s} : ~HasPacket(x, "initial_events")

-----------------------------------------------------------------------------
(* C14 *)

\* C14: a joining handle is delivered its replay batch before any live
\* broadcast: no event_created reaches a handle ahead of its initial_events,
\* and every event broadcast to it live was created after the batch was built.
C14_ReplayBeforeLive ==
    \A s \in Sockets : \A i, j \in 1..Len(received[s]) :
        (received[s][i].type = "initial_events" /\ received[s][j].type = "event_created")
        => /\ i < j
           /\ \A e \in Range(received[s][i].events) : e.id < received[s][j].event.id

\* a handle was delivered a replay batch and, after it, a live event
C14_Witness ==
    \E s \in Sockets : \E i, j \in 1..Len(received[s]) :
        /\ received[s][i].type = "initial_events"
        /\ received[s][j].type = "event_created"
        /\ i < j

-----------------------------------------------------------------------------
(* C15 *)

\* C15: a handle that has left is in no room and in no tenant group of the
\* registry, and no later step (a broadcast to its tenant included) delivers
\* anything to it.
C15_LeftHandleUnreachable ==
    [][ \A s \in Sockets :
          sockets'[s].status = "disconnected"
          => /\ \A r \in DOMAIN rooms' : s \notin rooms'[r]
             /\ \A t \in DOMAIN connectedClients' : s \notin connectedClients'[t]
             /\ sockets[s].status = "disconnected" => received'[s] = received[s] ]_vars

\* an event was created for a tenant after one of its handles had left, and
\* was delivered to a handle of the tenant that is still joined
C15_Witness ==
    /\ CreateSucceeded
    /\ LET t == lastOp.tenantId.val
       IN  /\ \E s \in Sockets : sockets[s].status = "disconnected" /\ sockets[s].tenantId = t
           /\ \E x \in JoinedUnder(t) :
                 /\ received[x][Len(received[x])].type = "event_created"
                 /\ received[x][Len(received[x])].event = lastOp.result.event

-----------------------------------------------------------------------------
(* C18 *)

\* C18: broadcasting an event to a cataloged tenant with no joined handle, or
\* to a tenant id outside the catalog, raises no error, delivers to no handle
\* and changes neither the event logs nor the registry.
C18_BroadcastToNobody ==
    [][ (/\ lastOp'.op = "broadcastToTenant"
         /\ (~InCatalog(lastOp'.tenantId) \/ JoinedUnder(lastOp'.tenantId.val) = {}))
        => /\ lastOp'.result.status = "ok"
           /\ received' = received
           /\ tenantEvents' = tenantEvents
           /\ connectedClients' = connectedClients
           /\ rooms' = rooms ]_vars

\* an event was broadcast to a cataloged tenant that has no handle while the
\* other tenant has one
C18_Witness ==
    /\ lastOp.op = "broadcastToTenant"
    /\ InCatalog(lastOp.tenantId)
    /\ JoinedUnder(lastOp.tenantId.val) = {}
    /\ \E s \in Sockets : sockets[s].status = "connected"

-----------------------------------------------------------------------------
(* C19 *)

\* C19: a connection attempt whose tenant is missing or not in the catalog is
\* rejected with an error; the handle is never in a tenant group or a room,
\* never counted in the registry's statistics and never delivered a replay
\* batch or a broadcast.
C19_RejectedNeverRegistered ==
    /\ (lastOp.op = "connect" /\ ~InCatalog(lastOp.tenantId))
          => /\ lastOp.result.status = "error"
             /\ lastOp.result.error # ""
             /\ sockets[lastOp.socket].status = "rejected"
    /\ \A s \in Sockets :
          sockets[s].status = "rejected"
          => /\ received[s] = <<>>
             /\ \A r \in DOMAIN rooms : s \notin rooms[r]
             /\ \A t \in DOMAIN connectedClients : s \notin connectedClients[t]
    /\ getConnectionStats.totalConnections
          = Cardinality({s \in Sockets : sockets[s].status = "connected"})

\* after a handshake was rejected, an event was created and delivered to a
\* handle that was accepted
C19_Witness ==
    /\ CreateSucceeded
    /\ \E s \in Sockets : sockets[s].status = "rejected"
    /\ \E x \in JoinedUnder(lastOp.tenantId.val) : HasPacket(x, "event_created")

-----------------------------------------------------------------------------
(* C20 *)

\* C20: leave for a handle that is not, or no longer, registered (a second
\* leave, a leave after the registry was cleared) raises no error and leaves
\* the registry unchanged.
C20_LeaveIdempotent ==
    [][ lastOp'.op = "handleDisconnection"
        => /\ lastOp'.result.status = "ok"
           /\ connectedClients' = connectedClients
           /\ rooms' = rooms
           /\ sockets' = sockets
           /\ received' = received ]_vars

\* a second leave of a handle whose tenant still has another handle registered
C20_Witness ==
    /\ lastOp.op = "handleDisconnection"
    /\ sockets[lastOp.socket].status = "disconnected"
    /\ JoinedUnder(sockets[lastOp.socket].tenantId) # {}
    /\ MapHas(connectedClients, sockets[lastOp.socket].tenantId)

-----------------------------------------------------------------------------
(* C16 *)

\* C16: a failure of one delivery, or an exception in one observer of the
\* creation announcement, is never raised to the caller of create and never
\* prevents delivery to the remaining members: create still returns the
\* stored event, and every handle joined under the tenant is delivered it.
C16_ObserverFailureIsolated ==
    [][ (/\ lastOp'.op = "createEvent"
         /\ InCatalog(lastOp'.tenantId)
         /\ lastOp'.message = ShortMessage)
        => /\ lastOp'.result.status = "ok"
           /\ tenantEvents'[lastOp'.tenantId.val][1] = lastOp'.result.event
           /\ \A s \in JoinedUnder(lastOp'.tenantId.val) :
                 /\ Len(received'[s]) > Len(received[s])
                 /\ received'[s][Len(received'[s])].type = "event_created"
                 /\ received'[s][Len(received'[s])].event = lastOp'.result.event ]_vars

-----------------------------------------------------------------------------
(* C17 *)

-----------------------------------------------------------------------------
\* C21: the connection registry never holds an empty tenant group; a tenant
\* has a group exactly when at least one handle is joined under it, and the
\* group holds exactly those handles.
C21_NoEmptyGroup ==
    /\ \A t \in DOMAIN connectedClients : connectedClients[t] # {}
    /\ \A t \in {id.val : id \in TenantInputs} :
           /\ MapHas(connectedClients, t) <=> JoinedUnder(t) # {}
           /\ MapHas(connectedClients, t) => connectedClients[t] = JoinedUnder(t)

\* the last handle of one tenant has left while another tenant still has one
C21_Witness ==
    /\ lastOp.op = "disconnect"
    /\ \E t, u \in TenantIds :
           /\ sockets[lastOp.socket].tenantId = t
           /\ ~MapHas(connectedClients, t)
           /\ MapHas(connectedClients, u)


-----------------------------------------------------------------------------
\* the count the stats report for tenant t: its entry, and none when the
\* tenant has no entry
ReportedConnections(t) ==
    IF t \in DOMAIN getConnectionStats.tenantConnections
    THEN getConnectionStats.tenantConnections[t]
    ELSE 0

\* C22: the registry stats report for every tenant the number of handles
\* joined under it and not yet left (a tenant with none has no entry), the
\* total is the sum of the per-tenant counts, which is the number of handles
\* joined and not yet left, and it is 0 once every joined handle has left.
C22_StatsCountJoined ==
    /\ \A t \in DOMAIN getConnectionStats.tenantConnections : t \in TenantIds
    /\ \A t \in TenantIds : ReportedConnections(t) = Cardinality(JoinedUnder(t))
    /\ getConnectionStats.totalConnections
           = Cardinality({s \in Sockets : sockets[s].status = "connected"})
    /\ (\A s \in Sockets : sockets[s].status # "connected")
           => getConnectionStats.totalConnections = 0

\* two handles joined under one tenant are counted as two
C22_Witness ==
    \E t \in TenantIds :
        /\ Cardinality(JoinedUnder(t)) = 2
        /\ getConnectionStats.tenantConnections[t] = 2
        /\ getConnectionStats.totalConnections = 2


-----------------------------------------------------------------------------
\* the tenant groups that hold handle s
GroupsOf(s) == {t \in DOMAIN connectedClients : s \in connectedClients[t]}

\* C30: every subscriber handle is registered under at most one tenant group,
\* and that group is the tenant it supplied when it connected; while it stays
\* connected its tenant and its group do not change, and a handle that is in
\* no group enters one only through a connect of its own.
C30_OneGroupForLife ==
    /\ [](\A s \in Sockets :
             /\ Cardinality(GroupsOf(s)) <= 1
             /\ \A t \in GroupsOf(s) : sockets[s].status = "connected"
                                         /\ sockets[s].tenantId = t
             /\ \A r \in DOMAIN rooms : s \in rooms[r] => sockets[s].tenantId = r)
    /\ [][\A s \in Sockets :
             /\ (lastOp'.op = "connect" /\ lastOp'.socket = s
                     /\ lastOp'.result.status = "ok" /\ sockets[s].status = "idle")
                  => GroupsOf(s)' = {lastOp'.tenantId.val}
             /\ sockets[s].status = "connected"
                  => /\ sockets'[s].tenantId = sockets[s].tenantId
                     /\ GroupsOf(s)' \subseteq GroupsOf(s)
             /\ (GroupsOf(s) = {} /\ GroupsOf(s)' # {})
                  => lastOp'.op = "connect" /\ lastOp'.socket = s]_vars

\* two handles are registered at once, one under each of two tenants
C30_Witness ==
    \E s, r \in Sockets :
        /\ GroupsOf(s) = {supportedTenants[1]}
        /\ GroupsOf(r) = {supportedTenants[2]}


-----------------------------------------------------------------------------
\* the operations that write a tenant's log
LogWrites == {"createEvent", "addEvent", "clearTenantEvents"}

\* the call that stored entry i of tenant t's log (the log is newest first,
\* the record of calls oldest first)
StoredBy(t, i) == stored[t][Len(stored[t]) - i + 1]

\* C23: an append, create or clear on tenant T leaves the log of every other
\* tenant unchanged; every entry of T's log, and every event list(T) returns,
\* was stored by a create or an append under T, and a created one was created
\* under T.
C23_OtherLogsUntouched ==
    /\ [](\A t \in TenantIds :
             /\ Len(tenantEvents[t]) = Len(stored[t])
             /\ \A i \in 1..Len(tenantEvents[t]) :
                    /\ tenantEvents[t][i] = StoredBy(t, i).event
                    /\ StoredBy(t, i).via = "createEvent" => tenantEvents[t][i].tenant_id = t
             /\ (lastOp.op = "getEvents" /\ lastOp.tenantId = Str(t))
                    => Range(lastOp.result.events) \subseteq Range(StoredEvents(t)))
    /\ [][\A t \in TenantIds :
             tenantEvents'[t] # tenantEvents[t]
                 => lastOp'.op \in LogWrites /\ lastOp'.tenantId = Str(t)]_vars

\* one tenant's log has just been cleared while the other's holds a created
\* and an appended event
C23_Witness ==
    /\ lastOp.op = "clearTenantEvents"
    /\ lastOp.result.status = "ok"
    /\ \E u \in TenantIds :
           /\ Str(u) # lastOp.tenantId
           /\ \E i, j \in 1..Len(stored[u]) :
                  stored[u][i].via = "createEvent" /\ stored[u][j].via = "addEvent"


-----------------------------------------------------------------------------
\* C25: getEventCount returns the current length of the tenant's log for a
\* cataloged tenant; for any identifier outside the catalog it returns 0,
\* raises no error and changes no state.
C25_CountNeverFails ==
    [][lastOp'.op = "getEventCount"
          => /\ lastOp'.result.status = "ok"
             /\ lastOp'.result.count =
                    IF InCatalog(lastOp'.tenantId)
                    THEN Len(tenantEvents[lastOp'.tenantId.val])
                    ELSE 0
             /\ UNCHANGED <<config, tenantEvents, connectedClients, rooms, sockets, received,
                            listeners, nextId, clock, stored>>]_vars

\* the count of an uncataloged identifier is asked while every log holds events
C25_Witness ==
    /\ lastOp.op = "getEventCount"
    /\ ~InCatalog(lastOp.tenantId)
    /\ lastOp.result.count = 0
    /\ \A t \in TenantIds : tenantEvents[t] # <<>>


-----------------------------------------------------------------------------
\* the operations of the log that take a tenant identifier and may fail
LogCallsThatFail == {"clearTenantEvents", "addEvent", "getEvents"}

\* C26: clearTenantEvents on a cataloged tenant empties that tenant's log, so
\* that its count is 0, and leaves every other log unchanged; clearTenantEvents,
\* addEvent and getEvents with an identifier outside the catalog fail with the
\* invalid-tenant error and change no log.
C26_ClearAndUnknownTenant ==
    [][/\ (lastOp'.op = "clearTenantEvents" /\ InCatalog(lastOp'.tenantId))
            => /\ lastOp'.result.status = "ok"
               /\ tenantEvents'[lastOp'.tenantId.val] = <<>>
               /\ Len(tenantEvents'[lastOp'.tenantId.val]) = 0
               /\ \A u \in TenantIds \ {lastOp'.tenantId.val} :
                      tenantEvents'[u] = tenantEvents[u]
       /\ (lastOp'.op \in LogCallsThatFail /\ ~InCatalog(lastOp'.tenantId))
            => /\ lastOp'.result.status = "error"
               /\ lastOp'.result.error = InvalidTenantError
               /\ tenantEvents' = tenantEvents]_vars

\* a clear with an uncataloged identifier has failed while every log holds events
C26_Witness ==
    /\ lastOp.op = "clearTenantEvents"
    /\ ~InCatalog(lastOp.tenantId)
    /\ lastOp.result.error = InvalidTenantError
    /\ \A t \in TenantIds : tenantEvents[t] # <<>>


-----------------------------------------------------------------------------
\* the lengths of the logs of the tenants in set S, added up
RECURSIVE TotalLength(_)
TotalLength(S) ==
    IF S = {}
    THEN 0
    ELSE LET t == CHOOSE x \in S : TRUE
         IN  Len(tenantEvents[t]) + TotalLength(S \ {t})

\* C27: in every reachable state the event stats hold an entry for every
\* cataloged tenant, and for no other, equal to the length of that tenant's
\* log, and totalEvents is the sum of the entries; the stats a call of
\* getEventStats returned are those of the state it was called in.
C27_EventStatsMatchLogs ==
    /\ DOMAIN getEventStats.tenantStats = TenantIds
    /\ \A t \in TenantIds : getEventStats.tenantStats[t] = Len(tenantEvents[t])
    /\ getEventStats.totalEvents = TotalLength(TenantIds)
    /\ lastOp.op = "getEventStats" => lastOp.result.stats = getEventStats

\* the stats were asked while the two logs have different lengths, both not 0
C27_Witness ==
    /\ lastOp.op = "getEventStats"
    /\ lastOp.result.stats.totalEvents > 2
    /\ \A t \in TenantIds : lastOp.result.stats.tenantStats[t] > 0
    /\ \E t, u \in TenantIds :
           lastOp.result.stats.tenantStats[t] # lastOp.result.stats.tenantStats[u]


-----------------------------------------------------------------------------
\* C28: in every reachable state, every event stored in tenant T's log has
\* tenant_id equal to T.
C28_StoredUnderOwnTenant ==
    \A t \in TenantIds :
        \A i \in 1..Len(tenantEvents[t]) : tenantEvents[t][i].tenant_id = t

-----------------------------------------------------------------------------
\* C29: in every reachable state, every event that createEvent has stored has
\* a message of between 1 and maxEventMessageLength characters, with no
\* white space at its start or at its end.
C29_StoredMessageNormalized ==
    \A t \in TenantIds :
        \A i \in 1..Len(stored[t]) :
            stored[t][i].via = "createEvent"
                => LET message == stored[t][i].event.message
                   IN  /\ Len(message) >= 1
                       /\ Len(message) <= maxEventMessageLength
                       /\ message[1] \notin WhiteSpace
                       /\ message[Len(message)] \notin WhiteSpace


-----------------------------------------------------------------------------
IsCreate(r) == r.via = "createEvent"

\* the events createEvent stored in tenant t's log, oldest first
CreatedUnder(t) == SelectSeq(stored[t], IsCreate)

\* C24: createEvent calls on one tenant, however many and in whatever order
\* they are served, lose and duplicate no append: a log that k calls found
\* with n events then holds min(n + k, MAX_EVENTS_PER_TENANT), its entries are
\* the most recently stored events, each once and newest first, and the
\* created events are pairwise distinct (their ids strictly increase).
C24_NoAppendLostOrDuplicated ==
    \A t \in TenantIds :
        /\ Len(tenantEvents[t]) = Min(Len(stored[t]), MAX_EVENTS_PER_TENANT)
        /\ \A i \in 1..Len(tenantEvents[t]) : tenantEvents[t][i] = StoredBy(t, i).event
        /\ LET created == CreatedUnder(t)
           IN  \A i \in 1..(Len(created) - 1) :
                   created[i].event.id < created[i + 1].event.id

\* two creates in a row have taken a log of MAX_EVENTS_PER_TENANT - 1 events
\* to the cap
C24_Witness ==
    \E t \in TenantIds :
        /\ Len(stored[t]) = MAX_EVENTS_PER_TENANT + 1
        /\ Len(tenantEvents[t]) = MAX_EVENTS_PER_TENANT
        /\ stored[t][Len(stored[t])].via = "createEvent"
        /\ stored[t][Len(stored[t]) - 1].via = "createEvent"
        /\ tenantEvents[t][1] # tenantEvents[t][2]


-----------------------------------------------------------------------------
\* C31: the tenant catalog is fixed: after any sequence of operations, writes
\* to the array getSupportedTenants returned included, isValidTenant(id) is
\* true exactly when id is a non-empty string of the configured tenants, and
\* getSupportedTenants returns the configured tenants in configuration order.
C31_CatalogFixed ==
    /\ \A id \in AllTenantInputs \cup {Str("new_tenant")} :
           isValidTenant(id) <=> (id.kind = "string" /\ id.val # "" /\ InCatalog(id))
    /\ getSupportedTenants = supportedTenants
    /\ lastOp.op = "isValidTenant"
           => lastOp.result.valid = InCatalog(lastOp.tenantId)

\* a caller has pushed a tenant of its own onto the array it was given
C31_Witness ==
    /\ lastOp.op = "getSupportedTenants"
    /\ Len(lastOp.result.tenants) > Len(supportedTenants)
    /\ lastOp.result.tenants[Len(lastOp.result.tenants)] = "new_tenant"
    /\ ~isValidTenant(Str("new_tenant"))


-----------------------------------------------------------------------------
\* C32: on the request path that escapes and then creates, the limit of
\* maxEventMessageLength characters applies to the raw input: a raw message of
\* at most that many characters that is not empty after trimming is never
\* rejected as too long, whatever reserved characters it contains.
C32_LimitOnRawInput ==
    (/\ lastOp.op = "POST /api/events"
     /\ InCatalog(lastOp.tenantId)
     /\ lastOp.message.kind = "string"
     /\ Len(lastOp.message.val) <= maxEventMessageLength
     /\ Trim(lastOp.message.val) # <<>>)
        => lastOp.code # "MESSAGE_TOO_LONG"


-----------------------------------------------------------------------------
\* C33: whenever createEvent fails, by whatever error, no event has been added
\* to any log and no delivery has been made: logs, registry and what the
\* subscribers have received are as they were before the call.
C33_FailedCreateChangesNothing ==
    [][(lastOp'.op = "createEvent" /\ lastOp'.result.status = "error")
          => UNCHANGED <<tenantEvents, connectedClients, rooms, received>>]_vars


-----------------------------------------------------------------------------
\* the events handle s was given in replay batches, and those it was given live
ReplayOf(s) ==
    UNION {Range(received[s][i].events) :
              i \in {k \in 1..Len(received[s]) : received[s][k].type = "initial_events"}}

LiveOf(s) ==
    {received[s][i].event :
        i \in {k \in 1..Len(received[s]) : received[s][k].type = "event_created"}}

\* C34: for a handle joined under tenant T, replay and live delivery neither
\* overlap nor leave a gap: no event is carried by two of the packets the
\* handle received nor twice by one replay batch, so an event of its replay
\* batch is never also broadcast live to it; and while the handle is joined,
\* every event in T's log that was created after its join (one that is not in
\* its replay batch and is newer than all of it) has reached it live.
C34_ReplayAndLiveDisjointNoGap ==
    \A s \in Sockets :
        /\ \A i, j \in 1..Len(received[s]) :
               i < j => PacketEvents(received[s][i]) \cap PacketEvents(received[s][j]) = {}
        /\ \A i \in 1..Len(received[s]) :
               received[s][i].type = "initial_events"
                   => \A a, b \in 1..Len(received[s][i].events) :
                          a < b => received[s][i].events[a] # received[s][i].events[b]
        /\ ReplayOf(s) \cap LiveOf(s) = {}
        /\ sockets[s].status = "connected"
               => \A e \in Range(tenantEvents[sockets[s].tenantId]) :
                      (e \notin ReplayOf(s) /\ \A r \in ReplayOf(s) : r.id < e.id)
                          => e \in LiveOf(s)

\* a joined handle got one event of its tenant's log by replay and another live
C34_Witness ==
    \E s \in Sockets :
        /\ sockets[s].status = "connected"
        /\ ReplayOf(s) # {}
        /\ LiveOf(s) # {}
        /\ ReplayOf(s) \cup LiveOf(s) = Range(tenantEvents[sockets[s].tenantId])


-----------------------------------------------------------------------------
\* C35: each handle receives the live broadcasts of its tenant in the order
\* the events were created: of two events it received live, the one created
\* first (the smaller id; the one deeper in the tenant's log when both are
\* still in it) was received first.
C35_LiveInCreationOrder ==
    \A s \in Sockets : \A i, j \in 1..Len(received[s]) :
        (i < j /\ received[s][i].type = "event_created"
               /\ received[s][j].type = "event_created")
        => /\ received[s][i].event.id < received[s][j].event.id
           /\ \A t \in TenantIds : \A a, b \in 1..Len(tenantEvents[t]) :
                  (tenantEvents[t][a] = received[s][i].event
                      /\ tenantEvents[t][b] = received[s][j].event)
                  => a > b

\* a handle has received two events live, both still in its tenant's log
C35_Witness ==
    \E s \in Sockets : \E i, j \in 1..Len(received[s]) :
        /\ i < j
        /\ received[s][i].type = "event_created"
        /\ received[s][j].type = "event_created"
        /\ {received[s][i].event, received[s][j].event}
               \subseteq Range(tenantEvents[sockets[s].tenantId])


-----------------------------------------------------------------------------
\* C36: when several of createEvent's checks fail for one input, the error is
\* that of the first failing check in the order tenant, message presence and
\* type, length: an invalid tenant gives the invalid-tenant error whatever the
\* message, and an absent or non-text message gives the message-required error
\* ahead of any length check.
C36_FirstFailingCheckReported ==
    lastOp.op = "createEvent"
    => /\ ~InCatalog(lastOp.tenantId)
            => lastOp.result.status = "error" /\ lastOp.result.error = InvalidTenantError
       /\ (InCatalog(lastOp.tenantId)
              /\ (lastOp.message.kind # "string" \/ Len(lastOp.message.val) = 0))
            => lastOp.result.status = "error" /\ lastOp.result.error = MessageRequiredError
       /\ (InCatalog(lastOp.tenantId) /\ lastOp.message.kind = "string"
              /\ Len(lastOp.message.val) > maxEventMessageLength)
            => lastOp.result.status = "error" /\ lastOp.result.error = MessageTooLongError

\* a cataloged tenant's create was given an array longer than the limit
C36_Witness ==
    /\ lastOp.op = "createEvent"
    /\ InCatalog(lastOp.tenantId)
    /\ lastOp.message.kind = "array"
    /\ Len(lastOp.message.val) > maxEventMessageLength
    /\ lastOp.result.error = MessageRequiredError


-----------------------------------------------------------------------------
\* C37: validateEventData and createEvent agree: for every candidate message
\* and any cataloged tenant, validateEventData reports the message valid
\* exactly when createEvent succeeds on it, and when validateEventData reports
\* the length-exceeded error createEvent fails with the too-long error.
C37_ValidateAgreesWithCreate ==
    (lastOp.op = "createEvent" /\ InCatalog(lastOp.tenantId))
    => LET validation == validateEventData([kind |-> "object", message |-> lastOp.message])
       IN  /\ validation.isValid <=> lastOp.result.status = "ok"
           /\ validation.errors = <<MessageTooLongError>>
                  => /\ lastOp.result.status = "error"
                     /\ lastOp.result.error = MessageTooLongError


-----------------------------------------------------------------------------
\* handle s is counted under tenant t by the registry
TrackedUnder(s, t) == MapHas(connectedClients, t) /\ s \in connectedClients[t]

\* a broadcast to tenant t made now would be delivered to handle s
WouldReach(s, t) ==
    broadcastToTenant(received, rooms, Str(t), TestEvent(t), clock)[s] # received[s]

\* C38: in every reachable state the registry's tracked membership coincides
\* with broadcast reachability: a handle is counted under tenant T by
\* getConnectionStats and getConnectedClientCount exactly when a broadcast to
\* T would be delivered to it.
C38_TrackedIffReachable ==
    \A t \in TenantIds :
        /\ \A s \in Sockets : TrackedUnder(s, t) <=> WouldReach(s, t)
        /\ getConnectedClientCount(t) = Cardinality({s \in Sockets : WouldReach(s, t)})
        /\ ReportedConnections(t) = Cardinality({s \in Sockets : WouldReach(s, t)})

\* one handle has left and is neither counted nor reachable, another of the
\* same tenant is still counted and reachable
C38_Witness ==
    \E t \in TenantIds : \E s, x \in Sockets :
        /\ sockets[s].status = "disconnected"
        /\ sockets[s].tenantId = t
        /\ ~TrackedUnder(s, t) /\ ~WouldReach(s, t)
        /\ TrackedUnder(x, t) /\ WouldReach(x, t)


-----------------------------------------------------------------------------
\* a text that writes a whole number: digits, with or without a sign
Numeric(x) ==
    LET body == IF x # <<>> /\ x[1] \in {"-", "+"} THEN Tail(x) ELSE x
    IN  body # <<>> /\ \A i \in 1..Len(body) : body[i] \in Digits

\* C39: the handler of GET /api/events reaches the listing only with a limit
\* between 1 and 100: an absent limit becomes 50, and a supplied limit that is
\* not numeric, is below 1 or is above 100 is rejected with an error, without
\* the log being read.
C39_ListOnlyWithValidLimit ==
    (lastOp.op = "GET /api/events" /\ InCatalog(lastOp.tenantId))
    => /\ lastOp.listed => lastOp.limit \in LowestLimit..HighestLimit
       /\ lastOp.limitParam.kind = "undefined"
              => lastOp.listed /\ lastOp.limit = DefaultLimit
       /\ (lastOp.limitParam.kind = "string"
              /\ (~Numeric(lastOp.limitParam.val)
                     \/ parseInt(lastOp.limitParam.val).value < LowestLimit
                     \/ parseInt(lastOp.limitParam.val).value > HighestLimit))
              => ~lastOp.listed /\ lastOp.status = 400

====
